---- MODULE Spec2Model ----
(***************************************************************************)
(* A model of the GPT conversation explorer (src/src/App.tsx) and of its   *)
(* summarizer panel (src/src/components/DeepSeekPanel.tsx).                *)
(*                                                                         *)
(* Text is modelled as sequences of one-character strings so that          *)
(* toLowerCase, join and includes are computed, not assumed.  Node ids are *)
(* positive numbers; None stands for every falsy id (null, undefined, ""), *)
(* which the loops of the code cannot tell apart.                          *)
(***************************************************************************)
EXTENDS Integers, Sequences, FiniteSets, TLC

VARIABLES
    \* ---- App.tsx state (useState hooks, lines 112-125)
    conversations,          \* Conversation[]
    filteredConversations,  \* Conversation[]
    selectedConversation,   \* Conversation | null
    chatHistory,            \* Message[]
    searchTerm,             \* string
    gpts,                   \* {Lester, Osho, Neville} -> boolean
    syncStatus,             \* string
    deleteConfirmation,     \* {id, title} | null
    \* ---- environment of App.tsx
    archive,                \* the content of /conversations.json
    fetchState,             \* position of fetchConversations
    filterDirty,            \* the filter effect has to run (a dependency changed)
    pendingDeletes,         \* confirmDelete calls awaiting conversationsStore.removeItem
    store,                  \* ids held by conversationsStore (nothing in src/ puts one there)
    \* ---- DeepSeekPanel.tsx state (lines 10-12) and environment
    prompt,
    response,
    isLoading,
    apiKey,                 \* import.meta.env.VITE_DEEPSEEK_API_KEY is set
    inflight,               \* axios.post calls awaiting the remote answer
    \* ---- observations
    classified,             \* the last value returned by getAssistantFromConversation
    unhandled,              \* an exception escaped a handler
    ev,                     \* the outcome of removeItem this state was produced by, if any
    submitLog,              \* one record per handlePromptSubmit call
    requests,               \* the submits that issued a remote request
    deleted,                \* ids deleted with success: now (this session), earlier
    \* ---- formatDate, and the loops taken one iteration at a time
    timeZone,               \* the time zone of the browser
    formatted,              \* the last call of formatDate: its argument and its value
    walk                    \* the loop being run: its locals and the ids it has read

appVars == <<conversations, filteredConversations, selectedConversation, chatHistory,
             searchTerm, gpts, syncStatus, deleteConfirmation>>
envVars == <<archive, fetchState, filterDirty, pendingDeletes, store>>
panelVars == <<prompt, response, isLoading, apiKey, inflight>>
obsVars == <<classified, unhandled, ev, submitLog, requests, deleted>>
stepVars == <<timeZone, formatted, walk>>
vars == <<appVars, envVars, panelVars, obsVars, stepVars>>

-----------------------------------------------------------------------------
(* Bounds of the model *)

MaxLen == 2        \* nodes of a chain drawn over every kind of node
MaxDeep == 7       \* nodes of a chain drawn over the kinds of DeepKinds
MaxPending == 2    \* confirmDelete calls awaiting the store at one time (SpecDelete)
MaxPendingFilter == 1   \* the same, where the filter's inputs change too (SpecFilter)
MaxSubmits == 2    \* calls of handlePromptSubmit in a behaviour
MaxPanelLen == 2   \* nodes of a chain the summarizer is run on

-----------------------------------------------------------------------------
(* Text *)

\* A character is a one-character string; a character outside ASCII is written
\* by its code point, "U+00C4" for A with diaeresis.  The text of the model is
\* drawn from ASCII, Latin-1 and the two Unicode line separators.
UpperCase == <<"A","B","C","D","E","F","G","H","I","J","K","L","M",
               "N","O","P","Q","R","S","T","U","V","W","X","Y","Z">>
LowerCase == <<"a","b","c","d","e","f","g","h","i","j","k","l","m",
               "n","o","p","q","r","s","t","u","v","w","x","y","z">>

\* The capital letters of Latin-1 (U+00C0 to U+00DE without the sign U+00D7)
\* and their small letters, 32 code points further on
UpperLatin1 == <<"U+00C0","U+00C1","U+00C2","U+00C3","U+00C4","U+00C5","U+00C6","U+00C7",
                "U+00C8","U+00C9","U+00CA","U+00CB","U+00CC","U+00CD","U+00CE","U+00CF",
                "U+00D0","U+00D1","U+00D2","U+00D3","U+00D4","U+00D5","U+00D6","U+00D8",
                "U+00D9","U+00DA","U+00DB","U+00DC","U+00DD","U+00DE">>
LowerLatin1 == <<"U+00E0","U+00E1","U+00E2","U+00E3","U+00E4","U+00E5","U+00E6","U+00E7",
                "U+00E8","U+00E9","U+00EA","U+00EB","U+00EC","U+00ED","U+00EE","U+00EF",
                "U+00F0","U+00F1","U+00F2","U+00F3","U+00F4","U+00F5","U+00F6","U+00F8",
                "U+00F9","U+00FA","U+00FB","U+00FC","U+00FD","U+00FE">>

Uppers == UpperCase \o UpperLatin1
Lowers == LowerCase \o LowerLatin1

UpperSet == {Uppers[i] : i \in 1..Len(Uppers)}

LowerOf == [c \in UpperSet |-> Lowers[CHOOSE i \in 1..Len(Uppers) : Uppers[i] = c]]

\* String.prototype.toLowerCase
toLowerCase(s) == [i \in 1..Len(s) |-> IF s[i] \in UpperSet THEN LowerOf[s[i]] ELSE s[i]]

\* String.prototype.includes
includes(s, t) ==
    \E i \in 0..(Len(s) - Len(t)) : SubSeq(s, i + 1, i + Len(t)) = t

\* Array.prototype.join
RECURSIVE join(_, _)
join(parts, sep) ==
    IF Len(parts) = 0 THEN <<>>
    ELSE IF Len(parts) = 1 THEN parts[1]
    ELSE parts[1] \o sep \o join(Tail(parts), sep)

lester == <<"l","e","s","t","e","r">>
osho == <<"o","s","h","o">>
neville == <<"n","e","v","i","l","l","e">>
fear == <<"f","e","a","r">>

-----------------------------------------------------------------------------
(* Data (App.tsx lines 8-32).  A field the JSON may leave out is a flag. *)

None == 0          \* a falsy node id: null, undefined or ""

Null == "null"     \* getAssistantFromConversation found no name
Unset == "unset"   \* getAssistantFromConversation was not called yet

NoMessage ==
    [id |-> None, hasAuthor |-> FALSE, role |-> "", hasContent |-> FALSE,
     hasParts |-> FALSE, parts |-> <<>>]

Msg(hasAuthor, role, hasContent, hasParts, parts) ==
    [id |-> None, hasAuthor |-> hasAuthor, role |-> role, hasContent |-> hasContent,
     hasParts |-> hasParts, parts |-> parts]

\* The kinds of node a chain is drawn from: the message of the node, if any.
KindMessage(k) ==
    CASE k = "A"  -> Msg(TRUE, "assistant", TRUE, TRUE, << <<"h","i">> >>)
      [] k = "AN" -> Msg(TRUE, "assistant", TRUE, TRUE,
                         << <<"a","s","k">>, <<"N","e","v","i","l","l","e">> >>)
      [] k = "AO" -> Msg(TRUE, "assistant", TRUE, TRUE,
                         << <<"O","S","H","O">>, <<"l","e","s","t","e","r">> >>)
      [] k = "AS" -> Msg(TRUE, "assistant", TRUE, TRUE,
                         << <<"l","e","s">>, <<"t","e","r"," ","F","E">>, <<"a","r">> >>)
      [] k = "UO" -> Msg(TRUE, "user", TRUE, TRUE,
                         << <<"O","s","h","o">>, <<"f","e","a","r">> >>)
      [] k = "UR" -> Msg(TRUE, "user", TRUE, TRUE,
                         << <<"r","U+00E4","d","s","l","a">> >>)
      [] k = "AE" -> Msg(TRUE, "assistant", TRUE, TRUE, <<>>)
      [] k = "NP" -> Msg(TRUE, "assistant", TRUE, FALSE, <<>>)
      [] k = "NC" -> Msg(TRUE, "assistant", FALSE, FALSE, <<>>)
      [] k = "NA" -> Msg(FALSE, "", TRUE, TRUE, << <<"L","e","s","t","e","r">> >>)
      [] k = "NM" -> NoMessage

AllKinds == {"A", "AN", "AO", "AS", "UO", "AE", "NP", "NC", "NA", "NM"}
DeepKinds == {"A", "AN", "UO"}
DeepHeads == {<<>>, <<"NP">>}    \* what a deep chain may start with

TitleChat == <<"C","h","a","t">>
TitleOsho == <<"m","y"," ","O","S","H","O"," ","t","a","l","k">>
TitleBoth == <<"O","s","h","o"," ","o","r"," ","L","e","s","t","e","r">>
TitleNeville == <<"n","e","v","i","l","l","e">>
TitleLester == <<"L","e","s","t","e","r"," ","f","e","a","r">>

NoConversation == [id |-> 0, title |-> <<>>, mapping |-> <<>>, current_node |-> None]

\* The conversation whose nodes 1..Len(kinds) are linked tip (1) to root, the
\* root's parent being None or, when dangling, an id that mapping lacks.
\* Node i carries the message of kinds[i], with id i.
MkConversation(id, title, kinds, dangling, start) ==
    [id |-> id,
     title |-> title,
     mapping |->
        [i \in 1..Len(kinds) |->
            [id |-> i,
             hasMsg |-> kinds[i] # "NM",
             message |-> [KindMessage(kinds[i]) EXCEPT !.id = i],
             parent |-> IF i < Len(kinds) THEN i + 1
                        ELSE IF dangling THEN Len(kinds) + 1 ELSE None]],
     current_node |-> start]

SeqsUpTo(S, n) == UNION {[1..k -> S] : k \in 0..n}

-----------------------------------------------------------------------------
(* The value of a JavaScript condition: "true", "false", or "throw" when its *)
(* evaluation reads a property of undefined.                               *)

\* reconstructGuard without the test of message.content
reconstructGuardNoContentTest(present, currentNode) ==
    IF ~present THEN "false"
    ELSE IF ~currentNode.hasMsg THEN "false"
    ELSE IF ~currentNode.message.hasContent THEN "throw"
    ELSE IF ~currentNode.message.hasParts THEN "false"
    ELSE IF Len(currentNode.message.parts) > 0 THEN "true" ELSE "false"

\* App.tsx line 205
reconstructGuard(present, currentNode) ==
    IF ~present THEN "false"
    ELSE IF ~currentNode.hasMsg THEN "false"
    ELSE IF ~currentNode.message.hasContent THEN "false"
    ELSE IF ~currentNode.message.hasParts THEN "false"
    ELSE IF Len(currentNode.message.parts) > 0 THEN "true" ELSE "false"

\* App.tsx line 87
classifyGuard(node) ==
    IF ~node.hasMsg THEN "true"
    ELSE IF ~node.message.hasAuthor THEN "true"
    ELSE IF ~node.message.hasContent THEN "true"
    ELSE IF ~node.message.hasParts THEN "true"
    ELSE "false"

\* reconstructWalk with push in place of unshift at line 206
RECURSIVE reconstructWalkPush(_, _, _)
reconstructWalkPush(conversation, currentNodeId, history) ==
    IF currentNodeId = None THEN [threw |-> FALSE, history |-> history]
    ELSE LET present == currentNodeId \in DOMAIN conversation.mapping
             currentNode == conversation.mapping[currentNodeId]
             g == reconstructGuard(present, currentNode)
             next == IF present THEN currentNode.parent ELSE None
         IN IF g = "throw" THEN [threw |-> TRUE, history |-> history]
            ELSE IF g = "true"
                 THEN reconstructWalkPush(conversation, next,
                                          history \o <<currentNode.message>>)
                 ELSE reconstructWalkPush(conversation, next, history)

\* App.tsx lines 203-209: the loop of handleSelectConversation
RECURSIVE reconstructWalk(_, _, _)
reconstructWalk(conversation, currentNodeId, history) ==
    IF currentNodeId = None THEN [threw |-> FALSE, history |-> history]
    ELSE LET present == currentNodeId \in DOMAIN conversation.mapping
             currentNode == conversation.mapping[currentNodeId]
             g == reconstructGuard(present, currentNode)
             next == IF present THEN currentNode.parent ELSE None
         IN IF g = "throw" THEN [threw |-> TRUE, history |-> history]
            ELSE IF g = "true"
                 THEN reconstructWalk(conversation, next,
                                      <<currentNode.message>> \o history)
                 ELSE reconstructWalk(conversation, next, history)

reconstruct(conversation) ==
    reconstructWalk(conversation, conversation.current_node, <<>>)

MAX_MESSAGES_TO_CHECK == 5

\* App.tsx lines 73-75 and 96-98: the names in their declared order
firstName(text) ==
    IF includes(text, lester) THEN "Lester"
    ELSE IF includes(text, osho) THEN "Osho"
    ELSE IF includes(text, neville) THEN "Neville"
    ELSE Null

\* classifyWalk counting every message, whatever its role
RECURSIVE classifyWalkCountAll(_, _, _)
classifyWalkCountAll(conversation, currentNodeId, checkedMessages) ==
    IF currentNodeId = None \/ ~(checkedMessages < MAX_MESSAGES_TO_CHECK) THEN Null
    ELSE IF currentNodeId \notin DOMAIN conversation.mapping THEN Null
    ELSE LET node == conversation.mapping[currentNodeId]
             g == classifyGuard(node)
         IN IF g = "throw" THEN "TypeError"
            ELSE IF g = "true"
                 THEN classifyWalkCountAll(conversation, node.parent, checkedMessages)
            ELSE IF node.message.role = "assistant"
                 THEN LET content == toLowerCase(join(node.message.parts, <<" ">>))
                          found == firstName(content)
                      IN IF found # Null THEN found
                         ELSE classifyWalkCountAll(conversation, node.parent,
                                                   checkedMessages + 1)
            ELSE classifyWalkCountAll(conversation, node.parent, checkedMessages + 1)

\* App.tsx lines 82-102: the loop of getAssistantFromConversation
RECURSIVE classifyWalk(_, _, _)
classifyWalk(conversation, currentNodeId, checkedMessages) ==
    IF currentNodeId = None \/ ~(checkedMessages < MAX_MESSAGES_TO_CHECK) THEN Null
    ELSE IF currentNodeId \notin DOMAIN conversation.mapping THEN Null
    ELSE LET node == conversation.mapping[currentNodeId]
             g == classifyGuard(node)
         IN IF g = "throw" THEN "TypeError"
            ELSE IF g = "true"
                 THEN classifyWalk(conversation, node.parent, checkedMessages)
            ELSE IF node.message.role = "assistant"
                 THEN LET content == toLowerCase(join(node.message.parts, <<" ">>))
                          found == firstName(content)
                      IN IF found # Null THEN found
                         ELSE classifyWalk(conversation, node.parent,
                                           checkedMessages + 1)
            ELSE classifyWalk(conversation, node.parent, checkedMessages)

\* getAssistantFromConversation without the look at the title
getAssistantFromMessagesOnly(conversation) ==
    classifyWalk(conversation, conversation.current_node, 0)

\* App.tsx lines 70-105
getAssistantFromConversation(conversation) ==
    LET title == toLowerCase(conversation.title)
        found == firstName(title)
    IN IF found # Null THEN found
       ELSE classifyWalk(conversation, conversation.current_node, 0)

-----------------------------------------------------------------------------
(* Values of the state *)

AllGpts == [Lester |-> TRUE, Osho |-> TRUE, Neville |-> TRUE]   \* App.tsx lines 117-121
NoGpts == [Lester |-> FALSE, Osho |-> FALSE, Neville |-> FALSE]  \* the three boxes unticked

NoStatus == [kind |-> "", title |-> <<>>]
NoConfirmation == [id |-> 0, title |-> <<>>]
NoResponse == [kind |-> "", topic |-> <<>>, gptName |-> <<>>, request |-> 0]
NoEvent == [kind |-> "", id |-> 0]

Event(kind, id) == [kind |-> kind, id |-> id]

\* The state the hooks give App and DeepSeekPanel on mount.
AppMounted ==
    /\ conversations = <<>>
    /\ filteredConversations = <<>>
    /\ selectedConversation = NoConversation
    /\ chatHistory = <<>>
    /\ searchTerm = <<>>
    /\ gpts = AllGpts
    /\ syncStatus = NoStatus
    /\ deleteConfirmation = NoConfirmation

PanelMounted ==
    /\ prompt = <<>>
    /\ response = NoResponse
    /\ isLoading = FALSE
    /\ inflight = {}

NoDate == [timestamp |-> [m |-> 0, e |-> -1], text |-> [kind |-> "none"]]
NoWalk == [pc |-> "idle"]

\* No call of formatDate yet and no loop under way; the browser is on Swedish time.
NoSteps ==
    /\ timeZone = "Europe/Stockholm"
    /\ formatted = NoDate
    /\ walk = NoWalk

NothingObserved ==
    /\ classified = Unset
    /\ unhandled = FALSE
    /\ ev = NoEvent
    /\ submitLog = <<>>
    /\ requests = {}
    /\ deleted = [now |-> {}, earlier |-> {}]

-----------------------------------------------------------------------------
(* The list the page shows *)

\* Array.prototype.filter with the test of lines 160-162 and 253-255
filterByTitle(cs, term) ==
    LET Test(c) == includes(toLowerCase(c.title), toLowerCase(term))
    IN SelectSeq(cs, Test)

\* App.tsx lines 167-169
selectedGptsOf(g) == {name \in {"Lester", "Osho", "Neville"} : g[name]}

\* filterResult without the assistant filter of lines 171-177
filterResultTitleOnly(cs, term, g) ==
    IF term # <<>> THEN filterByTitle(cs, term) ELSE cs

\* App.tsx lines 156-177: the value the filter effect gives filteredConversations
filterResult(cs, term, g) ==
    LET afterSearch == IF term # <<>> THEN filterByTitle(cs, term) ELSE cs
        selectedGpts == selectedGptsOf(g)
        Test(c) == LET assistant == getAssistantFromConversation(c)
                   IN assistant # Null /\ assistant \in selectedGpts
    IN IF selectedGpts # {} THEN SelectSeq(afterSearch, Test) ELSE afterSearch

-----------------------------------------------------------------------------
(* handleSelectConversation, App.tsx lines 199-211 *)

HandleSelectConversation(conversation) ==
    LET r == reconstruct(conversation)
    IN /\ ~filterDirty
       /\ selectedConversation' = conversation
       /\ chatHistory' = IF r.threw THEN chatHistory ELSE r.history
       /\ unhandled' = (unhandled \/ r.threw)
       /\ ev' = NoEvent
       /\ UNCHANGED stepVars
       /\ UNCHANGED <<conversations, filteredConversations, searchTerm, gpts,
                      syncStatus, deleteConfirmation>>
       /\ UNCHANGED <<envVars, panelVars>>
       /\ UNCHANGED <<classified, submitLog, requests, deleted>>

\* One call of getAssistantFromConversation, its value kept in classified.
Classify(conversation) ==
    /\ classified' = getAssistantFromConversation(conversation)
    /\ ev' = NoEvent
    /\ UNCHANGED stepVars
    /\ UNCHANGED <<appVars, envVars, panelVars>>
    /\ UNCHANGED <<unhandled, submitLog, requests, deleted>>

-----------------------------------------------------------------------------
(* The walks on their own: one loaded conversation, selected and classified. *)
(* The page has loaded the archive and the filter effect has run, with the    *)
(* three boxes as they are after the load or all unticked by the user; only a *)
(* conversation the list shows can be clicked (line 320).                     *)

WalkTitles == {TitleChat, TitleOsho, TitleBoth, TitleLester}

WalkConversations ==
    {MkConversation(1, t, k, d, s) :
        t \in WalkTitles, k \in SeqsUpTo(AllKinds, MaxLen), d \in BOOLEAN, s \in 0..2}
    \cup {MkConversation(1, TitleChat, h \o k, FALSE, 1) :
             h \in DeepHeads, k \in SeqsUpTo(DeepKinds, MaxDeep)}

InitWalk ==
    /\ conversations \in {<<c>> : c \in WalkConversations}
    /\ gpts \in {AllGpts, NoGpts}
    /\ filteredConversations = filterResult(conversations, <<>>, gpts)
    /\ archive = conversations
    /\ selectedConversation = NoConversation
    /\ chatHistory = <<>>
    /\ searchTerm = <<>>
    /\ syncStatus = NoStatus
    /\ deleteConfirmation = NoConfirmation
    /\ fetchState = "done"
    /\ filterDirty = FALSE
    /\ pendingDeletes = <<>>
    /\ store = {}
    /\ apiKey = FALSE
    /\ PanelMounted
    /\ NothingObserved
    /\ NoSteps

NextWalk ==
    \/ \E i \in 1..Len(filteredConversations) :
          HandleSelectConversation(filteredConversations[i])
    \/ Classify(conversations[1])

SpecWalk == InitWalk /\ [][NextWalk]_vars

-----------------------------------------------------------------------------
(* The parent chain of a conversation, stated without the loops of the code *)

RECURSIVE ChainFrom(_, _)
ChainFrom(c, id) ==
    IF id = None \/ id \notin DOMAIN c.mapping THEN <<>>
    ELSE <<id>> \o ChainFrom(c, c.mapping[id].parent)

\* The ids of the chain, current_node first.
Chain(c) == ChainFrom(c, c.current_node)

\* The id that follows the last node of the chain: None, or an id mapping lacks.
ChainEnd(c) ==
    IF Chain(c) = <<>> THEN c.current_node
    ELSE c.mapping[Chain(c)[Len(Chain(c))]].parent

Reverse(s) == [i \in 1..Len(s) |-> s[Len(s) + 1 - i]]

\* A well-formed message: author, content and at least one content part.
WellFormed(n) ==
    /\ n.hasMsg /\ n.message.hasAuthor /\ n.message.hasContent
    /\ n.message.hasParts /\ Len(n.message.parts) > 0

MessagesOf(c, ids) == [i \in 1..Len(ids) |-> c.mapping[ids[i]].message]

Sel == selectedConversation
Selected == selectedConversation # NoConversation

AllWellFormed(c) ==
    /\ ChainEnd(c) = None
    /\ \A i \in 1..Len(Chain(c)) : WellFormed(c.mapping[Chain(c)[i]])

\* C1: after handleSelectConversation of a conversation whose chain has N nodes,
\* all in mapping and all well-formed, chatHistory holds exactly the N messages
\* of the chain, each once, the root first and current_node last.
C1_ReconstructWholeChain ==
    (Selected /\ AllWellFormed(Sel)) =>
        /\ ~unhandled
        /\ Len(chatHistory) = Len(Chain(Sel))
        /\ chatHistory = MessagesOf(Sel, Reverse(Chain(Sel)))

C1_Witness ==
    /\ Selected /\ AllWellFormed(Sel)
    /\ Len(Chain(Sel)) >= 3
    /\ Len(chatHistory) = Len(Chain(Sel))
    /\ chatHistory[1].id # chatHistory[Len(chatHistory)].id

\* A node the walks take nothing from: its message or its content parts are missing.
MissingMessageOrParts(n) ==
    ~n.hasMsg \/ ~n.message.hasContent \/ ~n.message.hasParts

\* The nodes of the chain that have a message with at least one content part.
Contributing(c) ==
    LET Test(id) == /\ ~MissingMessageOrParts(c.mapping[id])
                    /\ Len(c.mapping[id].message.parts) > 0
    IN SelectSeq(Chain(c), Test)

\* The conversation with the nodes lacking a message or parts cut out of the
\* chain and with the chain ended by None where it met an id mapping lacks.
Normalize(c) ==
    LET Test(id) == ~MissingMessageOrParts(c.mapping[id])
        kept == SelectSeq(Chain(c), Test)
    IN [c EXCEPT
          !.mapping = [id \in {kept[i] : i \in 1..Len(kept)} |->
                          LET i == CHOOSE j \in 1..Len(kept) : kept[j] = id
                          IN [c.mapping[id] EXCEPT
                                !.parent = IF i < Len(kept) THEN kept[i + 1] ELSE None]],
          !.current_node = IF kept = <<>> THEN None ELSE kept[1]]

\* C2: neither walk raises an error; a node whose message or content parts are
\* missing adds nothing and the walk goes on at its parent; at an id that mapping
\* lacks the walk stops and gives the result of the nodes visited so far.
C2_WalksAreBestEffort ==
    /\ ~unhandled
    /\ Selected => chatHistory = MessagesOf(Sel, Reverse(Contributing(Sel)))
    /\ classified # Unset =>
          /\ classified # "TypeError"
          /\ classified = getAssistantFromConversation(Normalize(conversations[1]))

C2_Witness ==
    /\ Selected /\ Sel = conversations[1]
    /\ Len(Chain(Sel)) = 2
    /\ MissingMessageOrParts(Sel.mapping[Chain(Sel)[1]])
    /\ ChainEnd(Sel) # None
    /\ Len(chatHistory) = 1
    /\ classified = "Neville"

IsAssistant(n) == n.hasMsg /\ n.message.hasAuthor /\ n.message.role = "assistant"

\* The message has an author, a content and an array of content parts.
HasParts(n) ==
    n.hasMsg /\ n.message.hasAuthor /\ n.message.hasContent /\ n.message.hasParts

TextOf(n) ==
    IF HasParts(n) THEN toLowerCase(join(n.message.parts, <<" ">>)) ELSE <<>>

Min(a, b) == IF a < b THEN a ELSE b

\* The name in the nearest message of `checked` that holds a name, else Null.
NearestName(c, checked) ==
    LET hits == {i \in 1..Len(checked) : firstName(TextOf(c.mapping[checked[i]])) # Null}
    IN IF hits = {} THEN Null
       ELSE firstName(TextOf(c.mapping[checked[CHOOSE i \in hits : \A j \in hits : i <= j]]))

\* The first 5 assistant-authored messages of the chain.
FirstAssistantAuthored(c) ==
    LET Test(id) == IsAssistant(c.mapping[id])
        a == SelectSeq(Chain(c), Test)
    IN SubSeq(a, 1, Min(MAX_MESSAGES_TO_CHECK, Len(a)))

\* The first 5 assistant-authored messages of the chain that have content parts.
FirstAssistantWithParts(c) ==
    LET Test(id) == IsAssistant(c.mapping[id]) /\ HasParts(c.mapping[id])
        a == SelectSeq(Chain(c), Test)
    IN SubSeq(a, 1, Min(MAX_MESSAGES_TO_CHECK, Len(a)))

TitleHasNoName(c) == firstName(toLowerCase(c.title)) = Null

\* C3 as claimed: with no name in the title, the result is the name in the
\* nearest of the first 5 assistant-authored messages of the chain, and none
\* when a name occurs only in the 6th or a later one.
C3_Original ==
    (classified # Unset /\ TitleHasNoName(conversations[1])) =>
        classified = NearestName(conversations[1], FirstAssistantAuthored(conversations[1]))

\* C3 amended: with no name in the title, the result is the name in the nearest
\* of the first 5 assistant-authored messages that have an author, a content and
\* an array of content parts; every other node (a message of another role, a
\* node lacking message, author, content or parts) is passed without being
\* counted or matched; a name only in the 6th or a later such message gives none.
C3_ClassifyFirstFive ==
    (classified # Unset /\ TitleHasNoName(conversations[1])) =>
        classified = NearestName(conversations[1], FirstAssistantWithParts(conversations[1]))

\* The 6th assistant message names Neville, a user message before it names Osho.
C3_Witness ==
    LET c == conversations[1]
        Test(id) == IsAssistant(c.mapping[id]) /\ HasParts(c.mapping[id])
        a == SelectSeq(Chain(c), Test)
    IN /\ classified = Null
       /\ TitleHasNoName(c)
       /\ Len(a) = 6
       /\ firstName(TextOf(c.mapping[a[6]])) = "Neville"
       /\ \E i \in 1..Len(Chain(c)) : c.mapping[Chain(c)[i]].message.role = "user"

TitleHas(c, name) == includes(toLowerCase(c.title), name)

\* C4 as claimed: a title containing "osho" in any letter case gives "Osho".
C4_Original ==
    (classified # Unset /\ TitleHas(conversations[1], osho)) => classified = "Osho"

\* C4 amended: a title that contains "osho" in any letter case and does not
\* contain "lester" in any letter case gives "Osho", whatever the rest of the
\* title and the messages hold.
C4_TitleOsho ==
    (/\ classified # Unset
     /\ TitleHas(conversations[1], osho)
     /\ ~TitleHas(conversations[1], lester)) => classified = "Osho"

\* The title is "my OSHO talk" and the message at current_node names Lester.
C4_Witness ==
    LET c == conversations[1]
    IN /\ classified = "Osho"
       /\ c.title = TitleOsho
       /\ Chain(c) # <<>>
       /\ firstName(TextOf(c.mapping[Chain(c)[1]])) = "Lester"

-----------------------------------------------------------------------------
(* The application: App.tsx lines 111-274.                                 *)
(*                                                                         *)
(* State updates made in one handler, or in one resumption of an async     *)
(* function, are applied together (React 18 batches them), and the filter  *)
(* effect runs later, as a step of its own.  React runs the effects that   *)
(* are due before it dispatches a user event, so a user's handler never    *)
(* starts while the filter effect is due (Idle); the resumption of an      *)
(* awaited promise may.                                                    *)
(***************************************************************************)

Idle == ~filterDirty

Ids(cs) == {cs[i].id : i \in 1..Len(cs)}

\* App.tsx lines 155-180: the filter effect, run after a render in which
\* searchTerm, gpts or conversations changed
FilterEffect ==
    /\ filterDirty
    /\ filteredConversations' = filterResult(conversations, searchTerm, gpts)
    /\ filterDirty' = FALSE
    /\ ev' = NoEvent
    /\ UNCHANGED stepVars
    /\ UNCHANGED <<conversations, selectedConversation, chatHistory, searchTerm, gpts,
                   syncStatus, deleteConfirmation>>
    /\ UNCHANGED <<archive, fetchState, pendingDeletes, store>>
    /\ UNCHANGED panelVars
    /\ UNCHANGED <<classified, unhandled, submitLog, requests, deleted>>

\* App.tsx lines 131-140: fetch and response.json() succeeded
FetchResolve ==
    /\ fetchState = "pending"
    /\ fetchState' = "done"
    /\ conversations' = archive
    /\ filteredConversations' = archive
    /\ filterDirty' = TRUE
    /\ ev' = NoEvent
    /\ UNCHANGED stepVars
    /\ UNCHANGED <<selectedConversation, chatHistory, searchTerm, gpts, syncStatus,
                   deleteConfirmation>>
    /\ UNCHANGED <<archive, pendingDeletes, store>>
    /\ UNCHANGED panelVars
    /\ UNCHANGED <<classified, unhandled, submitLog, requests, deleted>>

\* App.tsx lines 141-145: fetch or response.json() failed
FetchReject ==
    /\ fetchState = "pending"
    /\ fetchState' = "failed"
    /\ ev' = NoEvent
    /\ UNCHANGED stepVars
    /\ UNCHANGED appVars
    /\ UNCHANGED <<archive, filterDirty, pendingDeletes, store>>
    /\ UNCHANGED panelVars
    /\ UNCHANGED <<classified, unhandled, submitLog, requests, deleted>>

\* App.tsx line 293: onChange of the search box
SetSearchTerm(term) ==
    /\ Idle
    /\ term # searchTerm
    /\ searchTerm' = term
    /\ filterDirty' = TRUE
    /\ ev' = NoEvent
    /\ UNCHANGED stepVars
    /\ UNCHANGED <<conversations, filteredConversations, selectedConversation,
                   chatHistory, gpts, syncStatus, deleteConfirmation>>
    /\ UNCHANGED <<archive, fetchState, pendingDeletes, store>>
    /\ UNCHANGED panelVars
    /\ UNCHANGED <<classified, unhandled, submitLog, requests, deleted>>

\* App.tsx lines 192-197: a checkbox is toggled
HandleGptChange(name) ==
    /\ Idle
    /\ gpts' = [gpts EXCEPT ![name] = ~gpts[name]]
    /\ filterDirty' = TRUE
    /\ ev' = NoEvent
    /\ UNCHANGED stepVars
    /\ UNCHANGED <<conversations, filteredConversations, selectedConversation,
                   chatHistory, searchTerm, syncStatus, deleteConfirmation>>
    /\ UNCHANGED <<archive, fetchState, pendingDeletes, store>>
    /\ UNCHANGED panelVars
    /\ UNCHANGED <<classified, unhandled, submitLog, requests, deleted>>

\* App.tsx lines 238-241
HandleDeleteConversation(conversation) ==
    /\ Idle
    /\ deleteConfirmation' = [id |-> conversation.id, title |-> conversation.title]
    /\ ev' = NoEvent
    /\ UNCHANGED stepVars
    /\ UNCHANGED <<conversations, filteredConversations, selectedConversation,
                   chatHistory, searchTerm, gpts, syncStatus>>
    /\ UNCHANGED envVars
    /\ UNCHANGED panelVars
    /\ UNCHANGED <<classified, unhandled, submitLog, requests, deleted>>

\* App.tsx lines 243-248: confirmDelete up to its await; what the call will
\* read afterwards is what the render it was made in holds
ConfirmDelete(limit) ==
    /\ Idle
    /\ deleteConfirmation # NoConfirmation
    /\ Len(pendingDeletes) < limit
    /\ pendingDeletes' = Append(pendingDeletes,
          [deleteConfirmation |-> deleteConfirmation,
           conversations |-> conversations,
           searchTerm |-> searchTerm,
           selectedConversation |-> selectedConversation])
    /\ ev' = NoEvent
    /\ UNCHANGED stepVars
    /\ UNCHANGED appVars
    /\ UNCHANGED <<archive, fetchState, filterDirty, store>>
    /\ UNCHANGED panelVars
    /\ UNCHANGED <<classified, unhandled, submitLog, requests, deleted>>

RemoveAt(s, i) == SubSeq(s, 1, i - 1) \o SubSeq(s, i + 1, Len(s))

WithoutId(cs, id) ==
    LET Test(c) == c.id # id
    IN SelectSeq(cs, Test)

\* App.tsx lines 248-263 and 269: removeItem fulfilled, confirmDelete resumes
RemoveItemResolve(i) ==
    LET p == pendingDeletes[i]
        newConversations == WithoutId(p.conversations, p.deleteConfirmation.id)
        wasSelected == p.selectedConversation.id = p.deleteConfirmation.id
    IN /\ store' = store \ {p.deleteConfirmation.id}
       /\ conversations' = newConversations
       /\ filteredConversations' = filterByTitle(newConversations, p.searchTerm)
       /\ selectedConversation' =
             IF wasSelected THEN NoConversation ELSE selectedConversation
       /\ chatHistory' = IF wasSelected THEN <<>> ELSE chatHistory
       /\ syncStatus' = [kind |-> "deleted", title |-> p.deleteConfirmation.title]
       /\ deleteConfirmation' = NoConfirmation
       /\ filterDirty' = TRUE
       /\ pendingDeletes' = RemoveAt(pendingDeletes, i)
       /\ deleted' = [deleted EXCEPT !.now = @ \cup {p.deleteConfirmation.id}]
       /\ ev' = Event("removeResolved", p.deleteConfirmation.id)
       /\ UNCHANGED stepVars
       /\ UNCHANGED <<searchTerm, gpts>>
       /\ UNCHANGED <<archive, fetchState>>
       /\ UNCHANGED panelVars
       /\ UNCHANGED <<classified, unhandled, submitLog, requests>>

\* RemoveItemReject with the await outside the try block
RemoveItemRejectUncaught(i) ==
    /\ unhandled' = TRUE
    /\ pendingDeletes' = RemoveAt(pendingDeletes, i)
    /\ ev' = Event("removeRejected", pendingDeletes[i].deleteConfirmation.id)
    /\ UNCHANGED stepVars
    /\ UNCHANGED appVars
    /\ UNCHANGED <<archive, fetchState, filterDirty, store>>
    /\ UNCHANGED panelVars
    /\ UNCHANGED <<classified, submitLog, requests, deleted>>

\* RemoveItemReject of a confirmDelete that removes from the state before the await
RemoveItemRejectOptimistic(i) ==
    LET p == pendingDeletes[i]
        newConversations == WithoutId(p.conversations, p.deleteConfirmation.id)
    IN /\ conversations' = newConversations
       /\ filteredConversations' = filterByTitle(newConversations, p.searchTerm)
       /\ syncStatus' = [kind |-> "deleteFailed", title |-> <<>>]
       /\ deleteConfirmation' = NoConfirmation
       /\ filterDirty' = TRUE
       /\ pendingDeletes' = RemoveAt(pendingDeletes, i)
       /\ ev' = Event("removeRejected", p.deleteConfirmation.id)
       /\ UNCHANGED stepVars
       /\ UNCHANGED <<selectedConversation, chatHistory, searchTerm, gpts>>
       /\ UNCHANGED <<archive, fetchState, store>>
       /\ UNCHANGED panelVars
       /\ UNCHANGED <<classified, unhandled, submitLog, requests, deleted>>

\* App.tsx lines 248 and 264-269: removeItem rejected, confirmDelete resumes
\* in its catch block
RemoveItemReject(i) ==
    /\ syncStatus' = [kind |-> "deleteFailed", title |-> <<>>]
    /\ deleteConfirmation' = NoConfirmation
    /\ pendingDeletes' = RemoveAt(pendingDeletes, i)
    /\ ev' = Event("removeRejected", pendingDeletes[i].deleteConfirmation.id)
    /\ UNCHANGED stepVars
    /\ UNCHANGED <<conversations, filteredConversations, selectedConversation,
                   chatHistory, searchTerm, gpts>>
    /\ UNCHANGED <<archive, fetchState, filterDirty, store>>
    /\ UNCHANGED panelVars
    /\ UNCHANGED <<classified, unhandled, submitLog, requests, deleted>>

\* App.tsx lines 272-274
CancelDelete ==
    /\ Idle
    /\ deleteConfirmation # NoConfirmation
    /\ deleteConfirmation' = NoConfirmation
    /\ ev' = NoEvent
    /\ UNCHANGED stepVars
    /\ UNCHANGED <<conversations, filteredConversations, selectedConversation,
                   chatHistory, searchTerm, gpts, syncStatus>>
    /\ UNCHANGED envVars
    /\ UNCHANGED panelVars
    /\ UNCHANGED <<classified, unhandled, submitLog, requests, deleted>>

\* The page is loaded again: the hooks start from their initial values (lines
\* 112-125), the archive is fetched again (lines 127-153) and the calls of the
\* old page never resume.  A removal the old page had started may or may not
\* have reached the store.
Reload ==
    /\ conversations' = <<>>
    /\ filteredConversations' = <<>>
    /\ selectedConversation' = NoConversation
    /\ chatHistory' = <<>>
    /\ searchTerm' = <<>>
    /\ gpts' = AllGpts
    /\ syncStatus' = NoStatus
    /\ deleteConfirmation' = NoConfirmation
    /\ fetchState' = "pending"
    /\ filterDirty' = FALSE
    /\ pendingDeletes' = <<>>
    /\ \E done \in SUBSET {pendingDeletes[i].deleteConfirmation.id :
                             i \in 1..Len(pendingDeletes)} :
          store' = store \ done
    /\ deleted' = [now |-> {}, earlier |-> deleted.earlier \cup deleted.now]
    /\ ev' = NoEvent
    /\ UNCHANGED stepVars
    /\ UNCHANGED archive
    /\ UNCHANGED panelVars
    /\ UNCHANGED <<classified, unhandled, submitLog, requests>>

-----------------------------------------------------------------------------
(* The archive the application is run on *)

\* "my OSHO talk": Osho by its title
ConvOsho == MkConversation(1, TitleOsho, <<"A">>, FALSE, 1)
\* "Chat": Neville by its second message, the first being a user's naming Osho
ConvNeville == MkConversation(2, TitleChat, <<"UO", "AN">>, FALSE, 1)
\* "Chat": no name anywhere
ConvPlain == MkConversation(3, TitleChat, <<"A", "NM">>, TRUE, 1)

Archives == {<<ConvOsho, ConvNeville, ConvPlain>>}

SearchTerms == {<<>>, <<"c","H","a">>, <<"O","s","h","o">>}

InitApp ==
    /\ archive \in Archives
    /\ AppMounted
    /\ fetchState = "pending"
    /\ filterDirty = FALSE
    /\ pendingDeletes = <<>>
    /\ store = {}
    /\ apiKey = FALSE
    /\ PanelMounted
    /\ NothingObserved
    /\ NoSteps

\* The list and its filter: every handler that writes what the filter effect
\* reads (conversations, searchTerm, gpts) or what it writes.
NextFilter ==
    \/ FetchResolve
    \/ FetchReject
    \/ FilterEffect
    \/ \E term \in SearchTerms : SetSearchTerm(term)
    \/ \E name \in {"Lester", "Osho", "Neville"} : HandleGptChange(name)
    \/ \E i \in 1..Len(filteredConversations) :
          HandleDeleteConversation(filteredConversations[i])
    \/ ConfirmDelete(MaxPendingFilter)
    \/ \E i \in 1..Len(pendingDeletes) : RemoveItemResolve(i)
    \/ \E i \in 1..Len(pendingDeletes) : RemoveItemReject(i)
    \/ CancelDelete

SpecFilter == InitApp /\ [][NextFilter]_vars

\* Deletion, selection and reloading, under the filter the page starts with.
NextDelete ==
    \/ FetchResolve
    \/ FetchReject
    \/ FilterEffect
    \/ \E i \in 1..Len(filteredConversations) :
          HandleSelectConversation(filteredConversations[i])
    \/ \E i \in 1..Len(filteredConversations) :
          HandleDeleteConversation(filteredConversations[i])
    \/ ConfirmDelete(MaxPending)
    \/ \E i \in 1..Len(pendingDeletes) : RemoveItemResolve(i)
    \/ \E i \in 1..Len(pendingDeletes) : RemoveItemReject(i)
    \/ CancelDelete
    \/ Reload

SpecDelete == InitApp /\ [][NextDelete]_vars

-----------------------------------------------------------------------------
(* Claims about the list, its filter and deletion *)

\* What the filter is to keep, stated per conversation.
Keep(c) ==
    /\ searchTerm # <<>> => includes(toLowerCase(c.title), toLowerCase(searchTerm))
    /\ selectedGptsOf(gpts) # {} => getAssistantFromConversation(c) \in selectedGptsOf(gpts)

\* C5: once the filter effect has run for the current conversations, searchTerm
\* and gpts, filteredConversations is the subsequence of conversations, in
\* their order, of those whose title contains a non-empty searchTerm (letter
\* case ignored) and which, when a checkbox is enabled, classify to an enabled
\* assistant; with no checkbox enabled no assistant filtering is applied.
C5_FilterIsExact ==
    ~filterDirty => filteredConversations = SelectSeq(conversations, Keep)

\* "cHa" is searched and only Neville is enabled: of the two "Chat"
\* conversations the one that classifies to none is dropped.
C5_Witness ==
    /\ ~filterDirty
    /\ Len(conversations) = 3
    /\ searchTerm = <<"c","H","a">>
    /\ selectedGptsOf(gpts) = {"Neville"}
    /\ filteredConversations = <<ConvNeville>>

\* C8 as claimed: a conversation deleted with success in an earlier session is
\* not in the list the page holds once the archive is fetched again.
C8_DeletionOutlivesSession ==
    fetchState = "done" => Ids(conversations) \cap deleted.earlier = {}

\* C9: when removeItem rejects, no exception leaves confirmDelete, syncStatus
\* is the failure message and deleteConfirmation is null again.
C9_DeleteFailureContained ==
    ev.kind = "removeRejected" =>
        /\ ~unhandled
        /\ syncStatus = [kind |-> "deleteFailed", title |-> <<>>]
        /\ deleteConfirmation = NoConfirmation

\* A removal fails after an earlier one had succeeded and set the success message.
C9_Witness ==
    /\ ev.kind = "removeRejected"
    /\ deleted.now # {}
    /\ syncStatus.kind = "deleteFailed"
    /\ deleteConfirmation = NoConfirmation

\* C10 as claimed: after a failed store write the conversation is gone from
\* conversations and filteredConversations and still in the store.
C10_Original ==
    ev.kind = "removeRejected" =>
        /\ ev.id \notin Ids(conversations)
        /\ ev.id \notin Ids(filteredConversations)
        /\ ev.id \in store

\* C10 amended: confirmDelete writes the store first and touches the lists only
\* once removeItem has succeeded: a step in which removeItem rejects leaves
\* conversations, filteredConversations and the store as they were (the
\* conversation is in the store neither before nor after, nothing having put
\* it there), and only the resumption after a successful removal, or a reload,
\* takes a conversation out of conversations.
C10_NotOptimistic ==
    [][/\ ev'.kind = "removeRejected" =>
             /\ conversations' = conversations
             /\ filteredConversations' = filteredConversations
             /\ store' = store
             /\ ev'.id \notin store'
       /\ Ids(conversations) \ Ids(conversations') # {} =>
             \/ /\ ev'.kind = "removeResolved"
                /\ ev'.id \notin store'
             \/ fetchState' = "pending"]_vars

\* removeItem has just failed and the conversation is still listed.
C10_Witness ==
    /\ ev.kind = "removeRejected"
    /\ syncStatus.kind = "deleteFailed"
    /\ ev.id \in Ids(conversations)
    /\ ev.id \in Ids(filteredConversations)

-----------------------------------------------------------------------------
(* The summarizer: DeepSeekPanel.tsx lines 14-83 *)

CmdHead == <<"s","a","m","m","a","n","f","a","t","t","a"," ","a","l","l","a"," ">>
CmdMid == <<"-","k","o","n","v","e","r","s","a","t","i","o","n","e","r"," ","o","m"," ">>
GptNames == <<lester, osho, neville>>

\* The characters the "." of a regular expression does not match
LineTerminators == {"\n", "\r", "U+2028", "U+2029"}

StartsWithAt(s, i, t) ==
    i + Len(t) - 1 <= Len(s) /\ SubSeq(s, i, i + Len(t) - 1) = t

NoMatch == [matched |-> FALSE, gptName |-> <<>>, topic |-> <<>>]

\* DeepSeekPanel.tsx line 19: prompt.match(/Sammanfatta alla
\* (Lester|Osho|Neville)-konversationer om (.*)/i), the leftmost match, its
\* two groups as they are written in the prompt
promptMatch(p) ==
    LET lp == toLowerCase(p)
        At(i, k) == StartsWithAt(lp, i, CmdHead \o GptNames[k] \o CmdMid)
        starts == {i \in 1..Len(p) : \E k \in 1..3 : At(i, k)}
    IN IF starts = {} THEN NoMatch
       ELSE LET i == CHOOSE x \in starts : \A y \in starts : x <= y
                k == CHOOSE x \in 1..3 : At(i, x)
                nameStart == i + Len(CmdHead)
                topicStart == nameStart + Len(GptNames[k]) + Len(CmdMid)
                stops == {j \in topicStart..Len(p) : p[j] \in LineTerminators}
                topicEnd == IF stops = {} THEN Len(p)
                            ELSE (CHOOSE x \in stops : \A y \in stops : x <= y) - 1
            IN [matched |-> TRUE,
                gptName |-> SubSeq(p, nameStart, nameStart + Len(GptNames[k]) - 1),
                topic |-> SubSeq(p, topicStart, topicEnd)]

\* DeepSeekPanel.tsx line 38
summarizeGuard(present, node, topic) ==
    IF ~present THEN "false"
    ELSE IF ~node.hasMsg THEN "false"
    ELSE IF ~node.message.hasContent THEN "throw"
    ELSE IF ~node.message.hasParts THEN "throw"
    ELSE IF includes(toLowerCase(join(node.message.parts, <<>>)), toLowerCase(topic))
         THEN "true" ELSE "false"

Separator == <<"\n", "\n">>

\* DeepSeekPanel.tsx lines 35-42: the walk of one conversation
RECURSIVE summarizeWalk(_, _, _, _)
summarizeWalk(convo, currentId, topic, content) ==
    IF currentId = None THEN [threw |-> FALSE, content |-> content]
    ELSE LET present == currentId \in DOMAIN convo.mapping
             node == convo.mapping[currentId]
             g == summarizeGuard(present, node, topic)
             next == IF present THEN node.parent ELSE None
         IN IF g = "throw" THEN [threw |-> TRUE, content |-> content]
            ELSE IF g = "true"
                 THEN summarizeWalk(convo, next, topic,
                         content \o join(node.message.parts, <<>>) \o Separator)
                 ELSE summarizeWalk(convo, next, topic, content)

\* DeepSeekPanel.tsx lines 33-43: forEach over the relevant conversations
RECURSIVE collectFrom(_, _, _)
collectFrom(convs, topic, content) ==
    IF convs = <<>> THEN [threw |-> FALSE, content |-> content]
    ELSE LET r == summarizeWalk(convs[1], convs[1].current_node, topic, content)
         IN IF r.threw THEN r ELSE collectFrom(Tail(convs), topic, r.content)

\* collect without the title test of lines 29-31
collectAnyTitle(convs, gptName, topic) ==
    collectFrom(convs, topic, <<>>)

\* DeepSeekPanel.tsx lines 29-43
collect(convs, gptName, topic) ==
    collectFrom(filterByTitle(convs, gptName), topic, <<>>)

Response(kind) == [NoResponse EXCEPT !.kind = kind]

\* submitOutcome without the test of the API key (lines 53-57)
submitOutcomeNoKeyTest(p, convs, key) ==
    LET m == promptMatch(p)
        c == collect(convs, m.gptName, m.topic)
        Entry(outcome, content) ==
            [prompt |-> p, outcome |-> outcome, gptName |-> m.gptName,
             topic |-> m.topic, content |-> content]
    IN IF ~m.matched
       THEN [log |-> Entry("usage", <<>>), response |-> Response("usage")]
       ELSE IF c.threw
       THEN [log |-> Entry("threw", c.content), response |-> NoResponse]
       ELSE IF c.content = <<>>
       THEN [log |-> Entry("nocontent", c.content),
             response |-> [NoResponse EXCEPT !.kind = "nocontent", !.topic = m.topic,
                                              !.gptName = m.gptName]]
       ELSE [log |-> Entry("requested", c.content), response |-> NoResponse]

\* DeepSeekPanel.tsx lines 21-57: what handlePromptSubmit does with the match m
\* and with c, the content the walks collected and whether one of them threw
outcomeOf(p, m, c, key) ==
    LET Entry(outcome, content) ==
            [prompt |-> p, outcome |-> outcome, gptName |-> m.gptName,
             topic |-> m.topic, content |-> content]
    IN IF ~m.matched
       THEN [log |-> Entry("usage", <<>>), response |-> Response("usage")]
       ELSE IF c.threw
       THEN [log |-> Entry("threw", c.content), response |-> NoResponse]
       ELSE IF c.content = <<>>
       THEN [log |-> Entry("nocontent", c.content),
             response |-> [NoResponse EXCEPT !.kind = "nocontent", !.topic = m.topic,
                                              !.gptName = m.gptName]]
       ELSE IF ~key
       THEN [log |-> Entry("missingkey", c.content), response |-> Response("missingkey")]
       ELSE [log |-> Entry("requested", c.content), response |-> NoResponse]

\* What one call of handlePromptSubmit does up to its return, its throw or its
\* await: the outcome, and the response it sets (NoResponse when only line 16 did)
submitOutcome(p, convs, key) ==
    LET m == promptMatch(p)
    IN outcomeOf(p, m, collect(convs, m.gptName, m.topic), key)

\* The button enabled whenever a prompt is typed, loading or not
submitEnabledWhileLoading == prompt # <<>>

\* DeepSeekPanel.tsx line 98: disabled={isLoading || !prompt}
submitEnabled == ~isLoading /\ prompt # <<>>

\* DeepSeekPanel.tsx lines 15-16 and 21-60: the state a call of
\* handlePromptSubmit with the outcome o leaves when it returns, throws or
\* awaits the request
SubmitEnds(o) ==
    LET n == Len(submitLog) + 1
    IN /\ submitLog' = Append(submitLog, o.log)
       /\ response' = o.response
       /\ isLoading' = (o.log.outcome \in {"threw", "requested"})
       /\ unhandled' = (unhandled \/ o.log.outcome = "threw")
       /\ inflight' = IF o.log.outcome = "requested" THEN inflight \cup {n} ELSE inflight
       /\ requests' = IF o.log.outcome = "requested" THEN requests \cup {n} ELSE requests
       /\ ev' = NoEvent
       /\ UNCHANGED <<prompt, apiKey>>
       /\ UNCHANGED <<appVars, envVars>>
       /\ UNCHANGED <<classified, deleted>>

\* DeepSeekPanel.tsx lines 14-60: the click on "Ask AI", up to the first await
\* (the request is then in flight), a return or a throw
HandlePromptSubmit ==
    /\ submitEnabled
    /\ Len(submitLog) < MaxSubmits
    /\ SubmitEnds(submitOutcome(prompt, conversations, apiKey))
    /\ UNCHANGED stepVars

\* DeepSeekPanel.tsx lines 76-82: the request is answered; the answer holds
\* choices[0].message.content (wellFormed) or reading it throws into the catch
RemoteResolve(n, wellFormed) ==
    /\ n \in inflight
    /\ inflight' = inflight \ {n}
    /\ response' = IF wellFormed THEN [NoResponse EXCEPT !.kind = "remote", !.request = n]
                   ELSE Response("error")
    /\ isLoading' = FALSE
    /\ ev' = NoEvent
    /\ UNCHANGED stepVars
    /\ UNCHANGED <<prompt, apiKey>>
    /\ UNCHANGED <<appVars, envVars>>
    /\ UNCHANGED <<classified, unhandled, submitLog, requests, deleted>>

\* DeepSeekPanel.tsx lines 77-82: the request fails
RemoteReject(n) ==
    /\ n \in inflight
    /\ inflight' = inflight \ {n}
    /\ response' = Response("error")
    /\ isLoading' = FALSE
    /\ ev' = NoEvent
    /\ UNCHANGED stepVars
    /\ UNCHANGED <<prompt, apiKey>>
    /\ UNCHANGED <<appVars, envVars>>
    /\ UNCHANGED <<classified, unhandled, submitLog, requests, deleted>>

\* DeepSeekPanel.tsx line 92: onChange of the textarea
SetPrompt(p) ==
    /\ p # prompt
    /\ prompt' = p
    /\ ev' = NoEvent
    /\ UNCHANGED stepVars
    /\ UNCHANGED <<response, isLoading, apiKey, inflight>>
    /\ UNCHANGED <<appVars, envVars>>
    /\ UNCHANGED <<classified, unhandled, submitLog, requests, deleted>>

-----------------------------------------------------------------------------
(* The prompts and the conversations the summarizer is run on *)

Typed == <<"S","a","m","m","a","n","f","a","t","t","a"," ","a","l","l","a"," ">>

PromptLesterFear == Typed \o <<"L","e","s","t","e","r">> \o CmdMid \o fear
PromptShout == Typed \o <<"O","S","H","O">> \o CmdMid \o <<"F","E","A","R">>
PromptNoTopic == Typed \o <<"N","e","v","i","l","l","e">> \o CmdMid
PromptJoy == Typed \o lester \o CmdMid \o <<"j","o","y">>
PromptLeading == <<"p","l","s"," ">> \o PromptLesterFear
PromptTwoLines == PromptLesterFear \o <<"\n","h","i">>
PromptBad == <<"S","u","m","m","a","r","i","z","e"," ","L","e","s","t","e","r">>
PromptCapitals == Typed \o lester \o CmdMid \o <<"R","U+00C4","D","S","L","A">>
PromptSeparator == PromptLesterFear \o <<"U+2028","h","i">>

Prompts == {PromptLesterFear, PromptShout, PromptNoTopic, PromptJoy, PromptLeading,
            PromptTwoLines, PromptBad, PromptCapitals, PromptSeparator}
CollectPrompts == {PromptLesterFear, PromptShout, PromptNoTopic, PromptJoy}

\* "Lester fear": a user's "Oshofear", an assistant's "hi", a user's "r\u00E4dsla"
PConvLester == MkConversation(5, TitleLester, <<"UO", "A", "UR">>, FALSE, 1)
\* "my OSHO talk": an assistant's "lester FEar", the chain ending at a missing id
PConvOsho == MkConversation(6, TitleOsho, <<"AS">>, TRUE, 1)
\* "Lester fear": an assistant's "hi", then a message without content
PConvBroken == MkConversation(7, TitleLester, <<"A", "NC">>, FALSE, 1)

PanelArchives == {<<>>, <<PConvLester, PConvOsho>>, <<PConvOsho, PConvBroken>>}

PanelKinds == {"A", "AS", "UO", "AE", "NP", "NC", "NA", "NM"}
PanelTitles == {TitleLester, TitleOsho, TitleChat}

CollectArchives ==
    {<<MkConversation(1, t, k, d, 1), PConvLester>> :
        t \in PanelTitles, k \in SeqsUpTo(PanelKinds, MaxPanelLen), d \in BOOLEAN}

InitPanelWith(archives, prompts) ==
    /\ conversations \in archives
    /\ filteredConversations = filterResult(conversations, <<>>, AllGpts)
    /\ archive = conversations
    /\ selectedConversation = NoConversation
    /\ chatHistory = <<>>
    /\ searchTerm = <<>>
    /\ gpts = AllGpts
    /\ syncStatus = NoStatus
    /\ deleteConfirmation = NoConfirmation
    /\ fetchState = "done"
    /\ filterDirty = FALSE
    /\ pendingDeletes = <<>>
    /\ store = {}
    /\ prompt \in prompts
    /\ response = NoResponse
    /\ isLoading = FALSE
    /\ inflight = {}
    /\ NothingObserved
    /\ NoSteps

\* The panel with the list App hands it, the prompt being typed and retyped.
InitPanel == InitPanelWith(PanelArchives, {<<>>}) /\ apiKey \in BOOLEAN

NextPanel ==
    \/ \E p \in Prompts : SetPrompt(p)
    \/ HandlePromptSubmit
    \/ \E n \in inflight, wellFormed \in BOOLEAN : RemoteResolve(n, wellFormed)
    \/ \E n \in inflight : RemoteReject(n)

SpecPanel == InitPanel /\ [][NextPanel]_vars

\* The collection of the summarizer on its own: a prompt that parses, typed
\* once, run on a generated conversation followed by a fixed one.
InitCollect == InitPanelWith(CollectArchives, {<<>>}) /\ apiKey = TRUE

NextCollect ==
    \/ \E p \in CollectPrompts : prompt = <<>> /\ SetPrompt(p)
    \/ HandlePromptSubmit
    \/ \E n \in inflight, wellFormed \in BOOLEAN : RemoteResolve(n, wellFormed)
    \/ \E n \in inflight : RemoteReject(n)

SpecCollect == InitCollect /\ [][NextCollect]_vars

-----------------------------------------------------------------------------
(* Claims about the summarizer *)

Submits == 1..Len(submitLog)

\* C6: a remote request is issued only for a prompt that matched, with a
\* non-empty collected content and an API key; a prompt that does not match
\* sets the usage hint, an empty collected content the "No content found"
\* response, a missing key the missing-key response, and none of these three
\* submits ever issues a request.
C6_RequestOnlyWhenReady ==
    /\ inflight \subseteq requests
    /\ \A n \in Submits :
          LET s == submitLog[n]
              m == promptMatch(s.prompt)
              last == n = Len(submitLog)
          IN /\ n \in requests => (m.matched /\ s.content # <<>> /\ apiKey)
             /\ ~m.matched =>
                   /\ s.outcome = "usage" /\ n \notin requests
                   /\ last => (response.kind = "usage" /\ ~isLoading)
             /\ (m.matched /\ s.outcome # "threw" /\ s.content = <<>>) =>
                   /\ s.outcome = "nocontent" /\ n \notin requests
                   /\ last => (response.kind = "nocontent" /\ ~isLoading)
             /\ (m.matched /\ s.outcome # "threw" /\ s.content # <<>> /\ ~apiKey) =>
                   /\ s.outcome = "missingkey" /\ n \notin requests
                   /\ last => (response.kind = "missingkey" /\ ~isLoading)
             /\ s.outcome = "threw" => n \notin requests

\* One submit issued a request and the next one found no content.
C6_Witness ==
    /\ Len(submitLog) = 2
    /\ requests = {1}
    /\ submitLog[2].outcome = "nocontent"
    /\ response.kind = "nocontent"

\* The nodes of the chain whose joined text contains the topic, letter case ignored.
MatchingNodes(c, topic) ==
    LET Test(id) ==
            LET n == c.mapping[id]
            IN /\ n.hasMsg /\ n.message.hasContent /\ n.message.hasParts
               /\ includes(toLowerCase(join(n.message.parts, <<>>)), toLowerCase(topic))
    IN SelectSeq(Chain(c), Test)

RECURSIVE Concat(_)
Concat(ss) == IF ss = <<>> THEN <<>> ELSE ss[1] \o Concat(Tail(ss))

\* The text of the matching nodes of the conversations whose title contains
\* the name, each followed by a blank line.
ExpectedContent(convs, gptName, topic) ==
    LET TitleTest(c) == includes(toLowerCase(c.title), toLowerCase(gptName))
        relevant == SelectSeq(convs, TitleTest)
        TextsOf(c) ==
            LET ids == MatchingNodes(c, topic)
            IN Concat([i \in 1..Len(ids) |->
                          join(c.mapping[ids[i]].message.parts, <<>>) \o Separator])
    IN Concat([i \in 1..Len(relevant) |-> TextsOf(relevant[i])])

IsPrefix(a, b) == Len(a) <= Len(b) /\ SubSeq(b, 1, Len(a)) = a

\* C7: for a parsed name and topic the collected text holds, each once and
\* followed by a blank line, exactly the nodes on the chain of a conversation
\* whose title contains the name and whose joined text contains the topic
\* (letter case ignored both times); a walk that throws has collected, up to
\* there, nothing else than such nodes.
C7_CollectsMatchingNodes ==
    \A n \in Submits :
        LET s == submitLog[n]
            m == promptMatch(s.prompt)
            expected == ExpectedContent(conversations, m.gptName, m.topic)
        IN m.matched =>
              /\ s.outcome # "threw" => s.content = expected
              /\ s.outcome = "threw" => IsPrefix(s.content, expected)

\* The topic is found in the second conversation and in another one whose
\* title lacks the name; a node of the second conversation lacks the topic.
C7_Witness ==
    /\ Len(submitLog) = 1
    /\ submitLog[1].outcome = "requested"
    /\ submitLog[1].prompt = PromptLesterFear
    /\ ~includes(toLowerCase(conversations[1].title), lester)
    /\ MatchingNodes(conversations[1], fear) # <<>>
    /\ Len(MatchingNodes(conversations[2], fear)) < Len(Chain(conversations[2]))
    /\ submitLog[1].content = <<"O","s","h","o","f","e","a","r","\n","\n">>

-----------------------------------------------------------------------------
(* formatDate, App.tsx lines 40-68 *)
(* A timestamp is the number m * 10^e, written [m |-> m, e |-> e] with e >= 0,   *)
(* so that values far beyond 2^31 can be told apart.  Time is counted in    *)
(* units of 10 seconds: 8640 to the day, 6 to the minute.  Every offset of  *)
(* a zone is a whole number of minutes and changes on a whole hour, so the  *)
(* calendar fields down to the minute are those of the millisecond value.   *)

MaxExp == 20       \* exponents of the timestamps formatDate is applied to

Num(m, e) == [m |-> m, e |-> e]

RECURSIVE Pow10(_)
Pow10(k) == IF k = 0 THEN 1 ELSE 10 * Pow10(k - 1)

\* m * 10^e < 10^E and m * 10^e > 10^E, for |m| < 2 * 10^9
LessThanPow10(t, E) ==
    IF t.e > E THEN t.m <= 0
    ELSE IF E - t.e >= 10 THEN TRUE
    ELSE t.m < Pow10(E - t.e)

GreaterThanPow10(t, E) ==
    IF t.e > E THEN t.m >= 1
    ELSE IF E - t.e >= 10 THEN FALSE
    ELSE t.m > Pow10(E - t.e)

\* formatDate without the division of line 50
msExponentNoMicroseconds(t) ==
    IF LessThanPow10(t, 10) THEN t.e + 3 ELSE t.e

\* App.tsx lines 42-51: timestampInMs is t.m * 10^msExponent(t), a whole number
\* of milliseconds or, after the division, a positive number
msExponent(t) ==
    IF LessThanPow10(t, 10) THEN t.e + 3
    ELSE IF GreaterThanPow10(t, 12) THEN t.e - 3
    ELSE t.e

UnitsPerDay == 8640
UnitsPerMinute == 6
MaxDays == 100000000     \* a Date holds at most 8.64e15 ms either side of 1970
FarDays == 200000000     \* every count of days beyond MaxDays is kept as this one

Clamp(x) == IF x > FarDays THEN FarDays ELSE IF x < -FarDays THEN -FarDays ELSE x

\* m * 10^k units as whole days since 1970 (rounded down) and units into the day
RECURSIVE DaysAndUnits(_, _)
DaysAndUnits(m, k) ==
    IF k = 0 THEN [days |-> m \div UnitsPerDay, units |-> m % UnitsPerDay]
    ELSE LET p == DaysAndUnits(m, k - 1)
         IN [days |-> Clamp(10 * p.days + (10 * p.units) \div UnitsPerDay),
             units |-> (10 * p.units) % UnitsPerDay]

\* App.tsx line 53: new Date(timestampInMs), in UTC; exact says that the value
\* is a whole number of units
utc(m, msExp) ==
    IF msExp >= 4
    THEN [exact |-> TRUE] @@ DaysAndUnits(m, msExp - 4)
    ELSE [exact |-> m % Pow10(4 - msExp) = 0] @@ DaysAndUnits(m \div Pow10(4 - msExp), 0)

\* TimeClip: the Date is invalid beyond 8.64e15 ms
validDate(u) ==
    /\ u.days >= -MaxDays
    /\ \/ u.days < MaxDays
       \/ u.days = MaxDays /\ u.units = 0 /\ u.exact

\* The calendar date of a day counted from 1970-01-01 (proleptic Gregorian)
civil(days) ==
    LET z == days + 719468
        era == z \div 146097
        doe == z - era * 146097
        yoe == (doe - doe \div 1460 + doe \div 36524 - doe \div 146096) \div 365
        doy == doe - (365 * yoe + yoe \div 4 - yoe \div 100)
        mp == (5 * doy + 2) \div 153
        month == IF mp < 10 THEN mp + 3 ELSE mp - 9
    IN [year |-> yoe + era * 400 + (IF month <= 2 THEN 1 ELSE 0),
        month |-> month,
        day |-> doy - (153 * mp + 2) \div 5 + 1]

\* The day, counted from 1970-01-01, of a calendar date
daysFromCivil(year, month, day) ==
    LET y == IF month <= 2 THEN year - 1 ELSE year
        era == y \div 400
        yoe == y - era * 400
        mp == IF month > 2 THEN month - 3 ELSE month + 9
        doy == (153 * mp + 2) \div 5 + day - 1
        doe == yoe * 365 + yoe \div 4 - yoe \div 100 + doy
    IN era * 146097 + doe - 719468

\* 0 for a Sunday; 1970-01-01 was a Thursday
weekday(days) == (days + 4) % 7

\* The last Sunday of a month of 31 days, and the n-th Sunday of a month
lastSunday(year, month) ==
    LET end == daysFromCivil(year, month, 31)
    IN end - weekday(end)

nthSunday(year, month, n) ==
    LET first == daysFromCivil(year, month, 1)
    IN first + ((7 - weekday(first)) % 7) + 7 * (n - 1)

UnitsPerHour == 360

\* Whether u lies in [from, to), both a day and an hour of UTC
Between(u, fromDay, fromHour, toDay, toHour) ==
    LET At(d, h) == [days |-> d, units |-> h * UnitsPerHour]
        Before(x, y) == x.days < y.days \/ (x.days = y.days /\ x.units < y.units)
    IN ~Before(u, At(fromDay, fromHour)) /\ Before(u, At(toDay, toHour))

\* The zones the browser may be in, with the rules they have had since 2007:
\* summer time in the European Union runs from the last Sunday of March to
\* the last Sunday of October, both at 01:00 UTC; in the United States from
\* the second Sunday of March to the first Sunday of November, both at 02:00
\* local time.  Years outside 2020..2025 give the sentinel under any rule.
TimeZones == {"UTC", "Europe/Stockholm", "America/Los_Angeles", "Asia/Kathmandu"}

\* Minutes the local time of the zone is ahead of UTC at the instant u
zoneOffset(zone, u) ==
    LET year == civil(u.days).year
    IN CASE zone = "UTC" -> 0
         [] zone = "Asia/Kathmandu" -> 345
         [] zone = "Europe/Stockholm" ->
               IF Between(u, lastSunday(year, 3), 1, lastSunday(year, 10), 1)
               THEN 120 ELSE 60
         [] zone = "America/Los_Angeles" ->
               IF Between(u, nthSunday(year, 3, 2), 10, nthSunday(year, 11, 1), 9)
               THEN -420 ELSE -480

\* The local time of a valid Date
localTime(u, zone) ==
    LET x == u.units + zoneOffset(zone, u) * UnitsPerMinute
    IN [days |-> u.days + x \div UnitsPerDay, units |-> x % UnitsPerDay]

Sentinel == [kind |-> "Ogiltigt datum"]
InvalidDateText == [kind |-> "Invalid Date"]

\* App.tsx lines 53-67, from the exponent of the millisecond value on
formatMs(t, msExp, zone) ==
    LET u == utc(t.m, msExp)
    IN IF ~validDate(u)
       \* getFullYear() is NaN, both comparisons of line 56 are false, and
       \* toLocaleDateString of an invalid Date is "Invalid Date"
       THEN InvalidDateText
       ELSE LET l == localTime(u, zone)
                c == civil(l.days)
            IN IF c.year < 2020 \/ c.year > 2025 THEN Sentinel
               ELSE [kind |-> "date", year |-> c.year, month |-> c.month, day |-> c.day,
                     hour |-> l.units \div (60 * UnitsPerMinute),
                     minute |-> (l.units % (60 * UnitsPerMinute)) \div UnitsPerMinute]

formatDateNoMicroseconds(t, zone) == formatMs(t, msExponentNoMicroseconds(t), zone)

\* App.tsx lines 40-68
formatDate(t, zone) == formatMs(t, msExponent(t), zone)

\* One call of formatDate (App.tsx lines 325 and 351), its value kept in formatted.
FormatDate(t) ==
    /\ formatted' = [timestamp |-> t, text |-> formatDate(t, timeZone)]
    /\ UNCHANGED <<timeZone, walk>>
    /\ UNCHANGED <<appVars, envVars, panelVars, obsVars>>

Mantissas == {-1, 0, 1, 17, 172, 864, 16882, 15778368, 17672256, 1577836799,
              1577833199, 1767225599, 18934560, 999999999, 1000000001,
              864000001, 1679792399, 1679792400, 1730624399, 1730624400}
Timestamps == {Num(m, e) : m \in Mantissas, e \in 0..MaxExp}

InitDate ==
    /\ AppMounted
    /\ archive = <<>>
    /\ fetchState = "done"
    /\ filterDirty = FALSE
    /\ pendingDeletes = <<>>
    /\ store = {}
    /\ apiKey = FALSE
    /\ PanelMounted
    /\ NothingObserved
    /\ timeZone \in TimeZones
    /\ formatted = NoDate
    /\ walk = NoWalk

NextDate == \E t \in Timestamps : FormatDate(t)

SpecDate == InitDate /\ [][NextDate]_vars

-----------------------------------------------------------------------------
(* Claims about formatDate *)

Day2020 == 18262   \* 2020-01-01 and 2026-01-01 in days since 1970-01-01
Day2026 == 20454

\* The local day of t.m * 10^msExp milliseconds lies in the years 2020 to 2025.
InYears(t, msExp, zone) ==
    LET day == localTime(utc(t.m, msExp), zone).days
    IN Day2020 <= day /\ day < Day2026

Formatted == formatted # NoDate

\* C11: the value of formatDate is the sentinel exactly when the year of the
\* instant normalized by lines 45-51 is below 2020 or above 2025, and a
\* formatted date otherwise.
C11_SentinelOutsideYears ==
    Formatted =>
        LET t == formatted.timestamp
            inside == InYears(t, msExponent(t), timeZone)
        IN /\ formatted.text = Sentinel <=> ~inside
           /\ inside => formatted.text.kind = "date"

SecondsScale(t) == LessThanPow10(t, 10)
MicrosecondsScale(t) == GreaterThanPow10(t, 12)

\* C20: a timestamp taken as milliseconds (1e10 <= t <= 1e12) lies before 2020
\* and gives the sentinel; a millisecond timestamp of an instant in 2020..2025
\* is above 1e12 and gives the sentinel too; a formatted date comes from a
\* seconds-scale or a microseconds-scale timestamp only.
C20_NoMillisecondDate ==
    Formatted =>
        LET t == formatted.timestamp
        IN /\ (~SecondsScale(t) /\ ~MicrosecondsScale(t)) =>
                 /\ localTime(utc(t.m, t.e), timeZone).days < Day2020
                 /\ formatted.text = Sentinel
           /\ InYears(t, t.e, timeZone) =>
                 /\ MicrosecondsScale(t)
                 /\ formatted.text = Sentinel
           /\ formatted.text.kind = "date" => (SecondsScale(t) \/ MicrosecondsScale(t))

\* 1 700 000 000 000, the milliseconds of 14 November 2023, gave the sentinel.
C20_Witness ==
    /\ formatted.timestamp = Num(17, 11)
    /\ InYears(formatted.timestamp, 11, timeZone)
    /\ formatted.text = Sentinel

-----------------------------------------------------------------------------
(* Claims about the messages of chatHistory *)

\* App.tsx lines 342-354: rendering chatHistory reads message.author.role of
\* every message, a TypeError when a message has no author
renderThrows ==
    \E i \in 1..Len(chatHistory) : ~chatHistory[i].hasAuthor

\* C12: every message of chatHistory has an author, a content and at least
\* one content part.
C12_HistoryWellFormed ==
    \A i \in 1..Len(chatHistory) :
        /\ chatHistory[i].hasAuthor
        /\ chatHistory[i].hasContent
        /\ chatHistory[i].hasParts
        /\ Len(chatHistory[i].parts) > 0

-----------------------------------------------------------------------------
(* Claims about the parsing of the prompt *)

\* The whole prompt is the command: it begins with "Sammanfatta alla
\* <name>-konversationer om " (letter case ignored) and the topic that follows
\* runs to its end, on the same line.
WholePromptIsCommand(p) ==
    /\ \E k \in 1..3 : StartsWithAt(toLowerCase(p), 1, CmdHead \o GptNames[k] \o CmdMid)
    /\ \A i \in 1..Len(p) : p[i] \notin LineTerminators

\* C13: a prompt that is not as a whole the command is rejected with the
\* usage hint.
C13_WholePromptOnly ==
    \A n \in Submits :
        ~WholePromptIsCommand(submitLog[n].prompt) => submitLog[n].outcome = "usage"

-----------------------------------------------------------------------------
(* Claims about the summarizer's requests and its loading flag *)

\* The display shows the answer to a request that is not the latest submit.
StaleDisplayed ==
    response.kind = "remote" /\ response.request # Len(submitLog)

\* C14 as claimed: while a remote call is pending a new request can be
\* submitted (the button takes the click whenever a prompt is typed).
C14_Original ==
    (inflight # {} /\ prompt # <<>> /\ Len(submitLog) < MaxSubmits)
        => ENABLED HandlePromptSubmit

\* C14 amended: from a submit that issues a request until its answer or
\* failure the button is disabled, so at most one remote call is pending, it is
\* the call of the latest submit, and an answer on display is never stale.
C14_NoStaleResponse ==
    /\ Cardinality(inflight) <= 1
    /\ inflight # {} => (isLoading /\ inflight = {Len(submitLog)})
    /\ ~StaleDisplayed

\* Two requests were issued, one after the other, and the answer to the
\* second is on display.
C14_Witness ==
    /\ requests = {1, 2}
    /\ inflight = {}
    /\ response.kind = "remote"
    /\ response.request = 2

\* C15: the walk of the summarizer raises no error and every submit reaches
\* one of its outcomes, whatever the nodes of the chain hold.
C15_SummarizerBestEffort ==
    /\ ~unhandled
    /\ \A n \in Submits : submitLog[n].outcome # "threw"

\* The remote call ends: axios.post resolves or rejects.
RemoteSettles ==
    \E n \in inflight :
        \/ \E wellFormed \in BOOLEAN : RemoteResolve(n, wellFormed)
        \/ RemoteReject(n)

\* SpecPanel where every remote call ends.
SpecPanelFair == SpecPanel /\ WF_vars(RemoteSettles)

\* C19: whenever isLoading is set it is cleared again, every remote call
\* resolving or rejecting in the end.
C19_LoadingClears == isLoading ~> ~isLoading

-----------------------------------------------------------------------------
(* Claims about the list after a delete *)

\* C17: a conversation deleted with success in this session is absent from
\* conversations in every later state of the session.
C17_DeletedStaysAway ==
    Ids(conversations) \cap deleted.now = {}

\* s holds some of the conversations of cs, in the order of cs.
IsSubsequence(s, cs) ==
    LET InS(c) == \E i \in 1..Len(s) : s[i] = c
    IN SelectSeq(cs, InS) = s

\* C18: in every state filteredConversations is a subsequence of
\* conversations and, a checkbox being enabled, holds no conversation that
\* classifies to a disabled assistant or to none.
C18_FilterNeverBypassed ==
    /\ IsSubsequence(filteredConversations, conversations)
    /\ selectedGptsOf(gpts) # {} =>
          \A i \in 1..Len(filteredConversations) :
              getAssistantFromConversation(filteredConversations[i])
                  \in selectedGptsOf(gpts)

-----------------------------------------------------------------------------
(* The three loops over the parent chain, one iteration to the step:         *)
(* handleSelectConversation (App.tsx lines 201-210),                         *)
(* getAssistantFromConversation (lines 78-104) and the walk of one           *)
(* conversation by handlePromptSubmit (DeepSeekPanel.tsx lines 34-42).       *)
(* walk holds the locals of the loop and, in visited, the ids it looked up.  *)

MaxLoopLen == 2    \* nodes of a chain drawn over every kind of node (SpecLoop)
MaxLoopDeep == 6   \* assistant and user messages of a long chain (SpecLoop)

LoopStart(kind, conversation, topic) ==
    [pc |-> "loop", kind |-> kind, conversation |-> conversation, topic |-> topic,
     currentNodeId |-> conversation.current_node, visited |-> <<>>,
     checkedMessages |-> 0, history |-> <<>>, content |-> <<>>, value |-> Null,
     gptName |-> <<>>, rest |-> <<>>]

\* The loop of getAssistantFromConversation without its bound on checkedMessages
classifyContinuesUnbounded(w) ==
    w.currentNodeId # None

\* App.tsx line 82: while (currentNodeId && checkedMessages < MAX_MESSAGES_TO_CHECK)
classifyContinues(w) ==
    w.currentNodeId # None /\ w.checkedMessages < MAX_MESSAGES_TO_CHECK

\* App.tsx line 203 and DeepSeekPanel.tsx line 35: while (currentNodeId)
Continues(w) ==
    IF w.kind = "classify" THEN classifyContinues(w) ELSE w.currentNodeId # None

\* DeepSeekPanel.tsx line 27: the groups of the match, kept by the call
Matched(w) == [matched |-> TRUE, gptName |-> w.gptName, topic |-> w.topic]

\* A step inside a handler: the state of React is set when the handler is left
WithinHandler ==
    /\ UNCHANGED <<timeZone, formatted>>
    /\ UNCHANGED <<appVars, envVars, panelVars, obsVars>>

\* getAssistantFromConversation returns value (App.tsx lines 73-75, 96-98, 104)
Returns(value) ==
    /\ classified' = value
    /\ ev' = NoEvent
    /\ UNCHANGED <<timeZone, formatted>>
    /\ UNCHANGED <<appVars, envVars, panelVars>>
    /\ UNCHANGED <<unhandled, submitLog, requests, deleted>>

\* App.tsx lines 199-202: the click on a conversation of the list (line 320)
StartReconstruct ==
    /\ walk.pc = "idle"
    /\ ~filterDirty
    /\ \E i \in 1..Len(filteredConversations) :
          walk' = LoopStart("reconstruct", filteredConversations[i], <<>>)
    /\ WithinHandler

\* App.tsx lines 70-81: the title is looked at before the loop
StartClassify ==
    LET found == firstName(toLowerCase(conversations[1].title))
        start == LoopStart("classify", conversations[1], <<>>)
    IN /\ walk.pc = "idle"
       /\ IF found # Null
          THEN /\ walk' = [start EXCEPT !.pc = "done", !.value = found]
               /\ Returns(found)
          ELSE /\ walk' = start
               /\ WithinHandler

\* DeepSeekPanel.tsx lines 14-35: the click on "Ask AI" as far as the first
\* walk; without a match or a relevant conversation no walk is made and
\* the call ends at line 24 or at lines 45-57
StartSummarize ==
    LET m == promptMatch(prompt)
        relevantConversations ==
            IF m.matched THEN filterByTitle(conversations, m.gptName) ELSE <<>>
    IN /\ walk.pc = "idle"
       /\ submitEnabled
       /\ Len(submitLog) < MaxSubmits
       /\ IF relevantConversations = <<>>
          THEN /\ SubmitEnds(outcomeOf(prompt, m, [threw |-> FALSE, content |-> <<>>],
                                       apiKey))
               /\ UNCHANGED stepVars
          ELSE /\ walk' = [LoopStart("summarize", relevantConversations[1], m.topic)
                              EXCEPT !.gptName = m.gptName,
                                     !.rest = Tail(relevantConversations)]
               /\ WithinHandler

\* App.tsx lines 204-208: one iteration
ReconstructStep ==
    LET id == walk.currentNodeId
        present == id \in DOMAIN walk.conversation.mapping
        currentNode == walk.conversation.mapping[id]
        g == reconstructGuard(present, currentNode)
    IN /\ walk.pc = "loop" /\ walk.kind = "reconstruct" /\ Continues(walk)
       /\ walk' = [walk EXCEPT
                     !.visited = Append(@, id),
                     !.history = IF g = "true" THEN <<currentNode.message>> \o @ ELSE @,
                     !.currentNodeId = IF present THEN currentNode.parent ELSE None]
       /\ WithinHandler

\* App.tsx lines 83-101: one iteration; lines 84 and 104 where mapping lacks
\* the id, lines 96-98 where a name is found
ClassifyStep ==
    LET id == walk.currentNodeId
        present == id \in DOMAIN walk.conversation.mapping
        node == walk.conversation.mapping[id]
        seen == [walk EXCEPT !.visited = Append(@, id)]
        found == firstName(toLowerCase(join(node.message.parts, <<" ">>)))
        next ==
            IF ~present THEN [seen EXCEPT !.pc = "done"]
            ELSE IF classifyGuard(node) = "true"
                 THEN [seen EXCEPT !.currentNodeId = node.parent]
            ELSE IF node.message.role = "assistant"
                 THEN IF found # Null
                      THEN [seen EXCEPT !.checkedMessages = @ + 1, !.pc = "done",
                                        !.value = found]
                      ELSE [seen EXCEPT !.checkedMessages = @ + 1,
                                        !.currentNodeId = node.parent]
            ELSE [seen EXCEPT !.currentNodeId = node.parent]
    IN /\ walk.pc = "loop" /\ walk.kind = "classify" /\ Continues(walk)
       /\ walk' = next
       /\ IF next.pc = "done" THEN Returns(next.value) ELSE WithinHandler

\* DeepSeekPanel.tsx lines 36-41: one iteration; where line 38 throws the call
\* ends with lines 15-16 applied
SummarizeStep ==
    LET id == walk.currentNodeId
        present == id \in DOMAIN walk.conversation.mapping
        node == walk.conversation.mapping[id]
        g == summarizeGuard(present, node, walk.topic)
        seen == [walk EXCEPT !.visited = Append(@, id)]
    IN /\ walk.pc = "loop" /\ walk.kind = "summarize" /\ Continues(walk)
       /\ IF g = "throw"
          THEN /\ walk' = [seen EXCEPT !.pc = "threw"]
               /\ SubmitEnds(outcomeOf(prompt, Matched(walk),
                                       [threw |-> TRUE, content |-> walk.content],
                                       apiKey))
               /\ UNCHANGED <<timeZone, formatted>>
          ELSE /\ walk' = [seen EXCEPT
                             !.content = IF g = "true"
                                         THEN @ \o join(node.message.parts, <<>>)
                                                \o Separator
                                         ELSE @,
                             !.currentNodeId = IF present THEN node.parent ELSE None]
               /\ WithinHandler

\* App.tsx lines 203 and 210: the condition of the while is false;
\* handleSelectConversation sets chatHistory, and the selection of line 200
\* is applied with it
ReconstructExit ==
    /\ walk.pc = "loop" /\ walk.kind = "reconstruct" /\ ~Continues(walk)
    /\ walk' = [walk EXCEPT !.pc = "done"]
    /\ selectedConversation' = walk.conversation
    /\ chatHistory' = walk.history
    /\ ev' = NoEvent
    /\ UNCHANGED <<timeZone, formatted>>
    /\ UNCHANGED <<conversations, filteredConversations, searchTerm, gpts,
                   syncStatus, deleteConfirmation>>
    /\ UNCHANGED <<envVars, panelVars>>
    /\ UNCHANGED <<classified, unhandled, submitLog, requests, deleted>>

\* App.tsx lines 82 and 104: the condition of the while is false;
\* getAssistantFromConversation returns null
ClassifyExit ==
    /\ walk.pc = "loop" /\ walk.kind = "classify" /\ ~Continues(walk)
    /\ walk' = [walk EXCEPT !.pc = "done"]
    /\ Returns(Null)

\* DeepSeekPanel.tsx lines 35 and 33: the condition of the while is false;
\* forEach goes on to the next relevant conversation or, after the last,
\* handlePromptSubmit goes on to lines 45-60
SummarizeExit ==
    /\ walk.pc = "loop" /\ walk.kind = "summarize" /\ ~Continues(walk)
    /\ IF walk.rest # <<>>
       THEN /\ walk' = [walk EXCEPT
                          !.conversation = walk.rest[1],
                          !.currentNodeId = walk.rest[1].current_node,
                          !.visited = <<>>,
                          !.rest = Tail(walk.rest)]
            /\ WithinHandler
       ELSE /\ walk' = [walk EXCEPT !.pc = "done"]
            /\ SubmitEnds(outcomeOf(prompt, Matched(walk),
                                    [threw |-> FALSE, content |-> walk.content],
                                    apiKey))
            /\ UNCHANGED <<timeZone, formatted>>

LoopRuns ==
    \/ ReconstructStep \/ ClassifyStep \/ SummarizeStep
    \/ ReconstructExit \/ ClassifyExit \/ SummarizeExit

PromptOshoFear == Typed \o <<"O","s","h","o">> \o CmdMid \o fear
PromptOshoAll == Typed \o <<"O","s","h","o">> \o CmdMid
LoopPrompts == {PromptOshoFear, PromptOshoAll}

\* One conversation titled "Chat", for the walks of handleSelectConversation
\* and getAssistantFromConversation
ChatArchives ==
    {<<MkConversation(1, TitleChat, k, d, s)>> :
        k \in SeqsUpTo(AllKinds, MaxLoopLen), d \in BOOLEAN, s \in 0..2}
    \cup {<<MkConversation(1, TitleChat, h \o k, FALSE, 1)>> :
             h \in DeepHeads, k \in [1..MaxLoopDeep -> {"A", "UO"}]}

\* One conversation titled "my OSHO talk", or two conversations, for the
\* walks of handlePromptSubmit
OshoArchives ==
    {<<MkConversation(1, TitleOsho, k, d, 1)>> :
        k \in SeqsUpTo(PanelKinds, MaxLoopLen), d \in BOOLEAN}
    \cup {<<ConvOsho, PConvOsho>>, <<ConvOsho, PConvLester>>}

\* The archive and the prompt typed: none for the "Chat" conversations, a
\* prompt that names Osho for the others and for one archive without a
\* conversation of that name
LoopInputs ==
    {<<a, <<>> >> : a \in ChatArchives}
    \cup {<<a, p>> : a \in OshoArchives \cup {<<PConvLester>>}, p \in LoopPrompts}

\* The page has loaded the archive and the filter effect has run; the user
\* has unticked the three boxes, so that the list shows every conversation,
\* and may have typed a prompt.
InitLoop ==
    /\ \E i \in LoopInputs : conversations = i[1] /\ prompt = i[2]
    /\ gpts = NoGpts
    /\ filteredConversations = filterResult(conversations, <<>>, gpts)
    /\ archive = conversations
    /\ selectedConversation = NoConversation
    /\ chatHistory = <<>>
    /\ searchTerm = <<>>
    /\ syncStatus = NoStatus
    /\ deleteConfirmation = NoConfirmation
    /\ fetchState = "done"
    /\ filterDirty = FALSE
    /\ pendingDeletes = <<>>
    /\ store = {}
    /\ apiKey = FALSE
    /\ response = NoResponse
    /\ isLoading = FALSE
    /\ inflight = {}
    /\ NothingObserved
    /\ NoSteps

NextLoop ==
    \/ StartReconstruct
    \/ StartClassify
    \/ StartSummarize
    \/ ReconstructStep
    \/ ClassifyStep
    \/ SummarizeStep
    \/ ReconstructExit
    \/ ClassifyExit
    \/ SummarizeExit

\* A loop of JavaScript runs on until it is left.
SpecLoop == InitLoop /\ [][NextLoop]_vars /\ WF_vars(LoopRuns)

\* The loops taken step by step compute what the walks above compute.
LoopsAgreeWithWalks ==
    walk.pc \in {"done", "threw"} =>
        LET c == walk.conversation
            m == promptMatch(prompt)
            r == collect(conversations, m.gptName, m.topic)
        IN /\ walk.kind = "reconstruct" =>
                 /\ walk.pc = "done"
                 /\ selectedConversation = c
                 /\ chatHistory = reconstruct(c).history
           /\ walk.kind = "classify" =>
                 /\ walk.pc = "done"
                 /\ walk.value = getAssistantFromConversation(c)
                 /\ classified = walk.value
           /\ walk.kind = "summarize" =>
                 /\ r.threw = (walk.pc = "threw")
                 /\ r.content = walk.content
                 /\ submitLog # <<>>
                 /\ submitLog[Len(submitLog)] =
                       submitOutcome(prompt, conversations, apiKey).log

-----------------------------------------------------------------------------
(* Claims about the termination of the walks *)

\* The ids a walk can look up: the chain and, where the chain ends at an id
\* that mapping lacks, that id.
Lookups(c) ==
    Chain(c) \o (IF ChainEnd(c) # None THEN <<ChainEnd(c)>> ELSE <<>>)

Started == walk.pc # "idle"

\* The walk has looked up, in their order and each once, the first ids of the chain.
VisitsChainOnce ==
    Started => IsPrefix(walk.visited, Lookups(walk.conversation))

\* How many of the first i ids looked up hold a message that satisfies Test.
CountVisited(Test(_), i) ==
    LET c == walk.conversation
    IN Cardinality({j \in 1..i : /\ walk.visited[j] \in DOMAIN c.mapping
                                 /\ Test(c.mapping[walk.visited[j]])})

AssistantWithParts(n) == IsAssistant(n) /\ HasParts(n)

Terminates == (walk.pc = "loop") ~> (walk.pc \in {"done", "threw"})

\* C16 as claimed: each walk looks up the ids of the chain at most once and
\* ends; the classify walk looks up nothing beyond the 5th assistant-authored
\* message.
C16_Original ==
    /\ VisitsChainOnce
    /\ (Started /\ walk.kind = "classify") =>
          \A i \in 1..(Len(walk.visited) - 1) :
              CountVisited(IsAssistant, i) < MAX_MESSAGES_TO_CHECK

\* C16 amended: each walk looks up the ids of the chain at most once, stops at
\* a null parent or at an id mapping lacks (the summarizer walk also where it
\* throws), and ends; the classify walk looks up nothing beyond the 5th
\* assistant message that has an author, a content and an array of parts.
C16_WalksTerminate ==
    /\ [](/\ VisitsChainOnce
          /\ (Started /\ walk.kind = "classify") =>
                /\ walk.checkedMessages =
                      CountVisited(AssistantWithParts, Len(walk.visited))
                /\ \A i \in 1..(Len(walk.visited) - 1) :
                      CountVisited(AssistantWithParts, i) < MAX_MESSAGES_TO_CHECK
          /\ (walk.pc = "done" /\ walk.kind # "classify") =>
                walk.visited = Lookups(walk.conversation))
    /\ Terminates

\* A chain of seven nodes: an assistant message without parts, five with
\* parts and one more; the classify walk ended after the sixth.
C16_Witness ==
    /\ walk.pc = "done" /\ walk.kind = "classify"
    /\ Len(Chain(walk.conversation)) = 7
    /\ Len(walk.visited) = 6
    /\ walk.checkedMessages = MAX_MESSAGES_TO_CHECK
    /\ CountVisited(IsAssistant, 6) = 6

====
